---- MODULE Spec2Model ----
(***************************************************************************)
(* Model of src/main.py, the avatar API.                                   *)
(*                                                                         *)
(* main.py is two generations of the service in one file.  Executing the   *)
(* module top to bottom creates a first FastAPI object (line 26), hangs    *)
(* seven routes and a startup hook on it, then rebinds the names `app`,    *)
(* `Avatar`, `avatar_cache`, `avatar_dict`, `load_avatars`, `root` and     *)
(* `health_check` (lines 243-307) and hangs four routes and a startup hook *)
(* on the second FastAPI object.  uvicorn.run(app) (line 358) serves the   *)
(* object the name `app` is bound to at that point.                        *)
(*                                                                         *)
(* Strings are TLA+ strings; Python's str methods are modelled by what     *)
(* they do on the characters.  Function objects are named name@line.       *)
(***************************************************************************)
EXTENDS Integers, Sequences, FiniteSets, TLC

VARIABLES
    FILENAMES,      \* the module-level filename list (line 273)
    ip,             \* index of the next top-level statement of main.py
    app,            \* the FastAPI object the name `app` is bound to (0: unbound)
    defs,           \* module namespace: function name -> function object
    routes,         \* per FastAPI object, its route table in registration order
    on_startup,     \* per FastAPI object, its startup hooks in registration order
    served,         \* the FastAPI object handed to uvicorn.run (0: none yet)
    phase,          \* "import", "startup" (lifespan startup pending), "serving"
    avatar_cache,   \* global avatar_cache: ordered list of Avatar
    avatar_dict,    \* global avatar_dict: name.lower() -> Avatar
    inflight,       \* get_avatar_image coroutines suspended at client.get
    resp            \* the response (or exception outcome) of the last finished call

vars == <<FILENAMES, ip, app, defs, routes, on_startup, served, phase,
          avatar_cache, avatar_dict, inflight, resp>>

-----------------------------------------------------------------------------
(* Bounds *)

MaxInflight == 1

-----------------------------------------------------------------------------
(* Python str operations *)

Max(S) == CHOOSE m \in S : \A n \in S : n <= m
Min(S) == CHOOSE m \in S : \A n \in S : m <= n

UpperAlphabet == "ABCDEFGHIJKLMNOPQRSTUVWXYZ"
LowerAlphabet == "abcdefghijklmnopqrstuvwxyz"

\* the lowercase letter of each uppercase ASCII letter
LowerMap ==
    [c \in {SubSeq(UpperAlphabet, i, i) : i \in 1..26} |->
        LET i == CHOOSE j \in 1..26 : SubSeq(UpperAlphabet, j, j) = c
        IN  SubSeq(LowerAlphabet, i, i)]

\* str.lower() on one ASCII character
LowerChar(c) == IF c \in DOMAIN LowerMap THEN LowerMap[c] ELSE c

\* str.lower()
RECURSIVE Lower(_)
Lower(s) == IF s = "" THEN "" ELSE LowerChar(Head(s)) \o Lower(Tail(s))

\* a prefix test in place of the substring test
StartsWith(sub, s) == SubSeq(s, 1, Len(sub)) = sub

\* `sub in s`
Contains(sub, s) ==
    \E i \in 1..(Len(s) - Len(sub) + 1) : SubSeq(s, i, i + Len(sub) - 1) = sub

\* s.replace(old, new) for a non-empty old: leftmost non-overlapping occurrences
RECURSIVE Replace(_, _, _)
Replace(s, old, new) ==
    IF Len(s) < Len(old) THEN s
    ELSE IF SubSeq(s, 1, Len(old)) = old
         THEN new \o Replace(SubSeq(s, Len(old) + 1, Len(s)), old, new)
         ELSE Head(s) \o Replace(Tail(s), old, new)

\* s.rfind(sep, 0, i) + 1 for a one-character sep: 0 when sep is not in s[:i]
RECURSIVE LastIndex(_, _, _)
LastIndex(s, sep, i) ==
    IF i = 0 THEN 0
    ELSE IF SubSeq(s, i, i) = sep THEN i ELSE LastIndex(s, sep, i - 1)

\* s.split(sep)[-1] for a one-character sep: what follows the last sep
SplitLast(s, sep) == SubSeq(s, LastIndex(s, sep, Len(s)) + 1, Len(s))

\* a slice that takes the element at hi too
PySliceInclusive(seq, lo, hi) ==
    LET n   == Len(seq)
        nrm(i) == IF i < 0 THEN (IF i + n < 0 THEN 0 ELSE i + n)
                  ELSE (IF i > n THEN n ELSE i)
    IN  SubSeq(seq, nrm(lo) + 1, nrm(hi + 1))

\* seq[lo:hi] for a list, with Python's clamping and negative indices
PySlice(seq, lo, hi) ==
    LET n   == Len(seq)
        nrm(i) == IF i < 0 THEN (IF i + n < 0 THEN 0 ELSE i + n)
                  ELSE (IF i > n THEN n ELSE i)
    IN  SubSeq(seq, nrm(lo) + 1, nrm(hi))

\* [seq[i] for i in lo..hi if i in keep], in list order
RECURSIVE Pick(_, _, _, _)
Pick(seq, keep, lo, hi) ==
    IF lo > hi THEN <<>>
    ELSE IF lo = hi THEN (IF lo \in keep THEN <<seq[lo]>> ELSE <<>>)
    ELSE LET mid == (lo + hi) \div 2
         IN  Pick(seq, keep, lo, mid) \o Pick(seq, keep, mid + 1, hi)

\* urllib.parse.urljoin(base, url) for a url that is a single relative path
\* segment (no scheme, no "/", "?", "#", not "." or ".."): the segment
\* replaces what follows the last "/" of base.
urljoin(base, url) == SubSeq(base, 1, LastIndex(base, "/", Len(base))) \o url

-----------------------------------------------------------------------------
(* Avatar *)

BASE_AVATAR_URL == "http://www.tam-files.toko-aplikasi.my.id/images/avatars/"

\* the from_filename of the first generation: no encoding of spaces
from_filename_unencoded(filename) ==
    [name     |-> Replace(filename, ".png", ""),
     imageurl |-> urljoin(BASE_AVATAR_URL, filename)]

\* Avatar.from_filename as bound when load_avatars runs
from_filename(filename) ==
    [name     |-> Replace(filename, ".png", ""),
     imageurl |-> urljoin(BASE_AVATAR_URL, Replace(filename, " ", "%20"))]

\* {"name": .., "imageurl": .., "filename": ..}
Shape(avatar) ==
    [name     |-> avatar.name,
     imageurl |-> avatar.imageurl,
     filename |-> SplitLast(avatar.imageurl, "/")]

-----------------------------------------------------------------------------
(* The top-level statements of main.py, in execution order *)

\* filenames, the local list of the load_avatars of line 46
filenames ==
    << "Abraham Baker.png", "Adem Lane.png", "Adil Floyd.png",
       "Adriana O'Sullivan.png", "Alec Whitten.png", "Alesha Barry.png",
       "Ali Mahdi.png", "Aliah Lane.png", "Alisa Hester.png",
       "Amanda Lowery.png", "Amelie Bennett.png", "Amelie Laurent.png",
       "Ammar Foley.png", "Anaiah Whitten.png", "Andi Lane.png",
       "Angelica Wallace.png", "Anita Cruz.png", "Ashton Blackwell.png",
       "Ashwin Santiago.png", "Aston Hood.png", "Ava Bentley.png",
       "Ava Wright.png", "Ayah Wilkinson.png", "Aysha Becker.png",
       "Bailey Richards.png", "Bec Ferguson.png", "Belle Woods.png",
       "Benedict Doherty.png", "Billie Wright.png", "Blake Riley.png",
       "Brianna Ware.png", "Byron Robertson.png", "Caitlyn King.png",
       "Cameron Yang.png", "Candice Wu.png", "Clifford Jennings.png",
       "Cohen Lozano.png", "Courtney Turner.png", "Danyal Lester.png",
       "Demi Wilkinson.png", "Dillan Nguyen.png", "Drew Cano.png",
       "Eduard Franz.png", "Elena Owens.png", "Elisa Nishikawa.png",
       "Elsie Roy.png", "Erica Wyatt.png", "Ethan Campbell.png",
       "Ethan Valdez.png", "Eva Bond.png", "Eve Leroy.png",
       "Fergus Gray.png", "Fleur Cook.png", "Florence Shaw.png",
       "Frank Whitaker.png", "Franklin Mays.png", "Freya Browning.png",
       "Genevieve Mclean.png", "Harriet Rojas.png", "Harry Bender.png",
       "Hasan Johns.png", "Herbert Fowler.png", "Isla Allison.png",
       "Isobel Carroll.png", "Isobel Fuller.png", "Jackson Reed.png",
       "Jay Shepard.png", "Jaya Willis.png", "Jayden Moss.png",
       "Jessie Meyton.png", "Jonathan Kelly.png", "Jordan Burgess.png",
       "Joshua Wilson.png", "Julius Vaughan.png", "Kaden Scott.png",
       "Kaitlin Hale.png", "Kari Rasmussen.png", "Kate Morrison.png",
       "Katherine Moss.png", "Katy Fuller.png", "Kelly Williams.png",
       "Kelsey Lowe.png", "Koray Okumus.png", "Kyla Clay.png",
       "Lana Steiner.png", "Levi Rocha.png", "Leyton Fields.png",
       "Liam Hood.png", "Lily-Rose Chedjou.png", "Loki Bright.png",
       "Lola Sanders.png", "Lori Bryson.png", "Lucy Bond.png",
       "Lulu Meyers.png", "Luqman Anthony.png", "Lyle Kauffman.png",
       "Maddison Gillespie.png", "Madeleine Pitts.png", "Marco Gross.png",
       "Marco Kelly.png", "Marvin Robbins.png", "Mathilde Lewis.png",
       "Maxwell Tan.png", "Mikey Lawrence.png", "Mollie Hall.png",
       "Molly Vaughan.png", "Nala Goins.png", "Natali Craig.png",
       "Nic Fassbender.png", "Nicola Harris.png", "Nicolas Trevino.png",
       "Nicolas Wang.png", "Nikolas Gibbons.png", "Noah Pierre.png",
       "Noel Baldwin.png", "Olivia Rhye.png", "Olly Schroeder.png",
       "Orlando Diggs.png", "Owen Garcia.png", "Owen Harding.png",
       "Phoenix Baker.png", "Pippa Wilkinson.png", "Priya Shepard.png",
       "Rachael Strong.png", "Rayhan Zua.png", "Rene Wells.png",
       "Rhea Levine.png", "Rhianna Shepard.png", "Riley O'Moore.png",
       "Rory Huff.png", "Rosalee Melvin.png", "Sally Mason.png",
       "Sarah Page.png", "Scott Clayton.png", "Sienna Hewitt.png",
       "Sophia Perez.png", "Stefan Sears.png", "Youssef Roberson.png",
       "Zahir Mays.png", "Zahra Christensen.png", "Zaid Schwartz.png",
       "Zara Bush.png", "Zaynab Donnelly.png", "Zuzanna Burke.png" >>

\* FILENAMES as written at line 273
FILENAMES_literal ==
    << "Abraham Baker.png", "Adem Lane.png", "Adil Floyd.png",
       "Adriana O'Sullivan.png", "Alec Whitten.png" >>

Stmt(op, name, fn, path) == [op |-> op, name |-> name, fn |-> fn, path |-> path]

\* A path is its sequence of segments; "{}" marks a path parameter.
Program ==
    << Stmt("new_app",    "app",                "",                       <<>>),
       Stmt("globals",    "avatar_cache",       "",                       <<>>),
       Stmt("on_startup", "load_avatars",       "load_avatars@46",        <<>>),
       Stmt("route",      "root",               "root@111",               <<>>),
       Stmt("route",      "get_all_avatars",    "get_all_avatars@116",    <<"api", "avatars">>),
       Stmt("route",      "get_avatar_by_name", "get_avatar_by_name@148", <<"api", "avatars", "{}">>),
       Stmt("route",      "get_random_avatars", "get_random_avatars@173", <<"api", "avatars", "random", "{}">>),
       Stmt("route",      "get_avatar_stats",   "get_avatar_stats@199",   <<"api", "avatars", "stats", "info">>),
       Stmt("route",      "get_avatar_image",   "get_avatar_image@212",   <<"api", "avatars", "{}", "image">>),
       Stmt("route",      "health_check",       "health_check@226",       <<"health">>),
       Stmt("new_app",    "app",                "",                       <<>>),
       Stmt("globals",    "avatar_cache",       "",                       <<>>),
       Stmt("on_startup", "load_avatars",       "load_avatars@286",       <<>>),
       Stmt("route",      "health_check",       "health_check@295",       <<"health">>),
       Stmt("route",      "root",               "root@305",               <<>>),
       Stmt("route",      "get_avatars",        "get_avatars@310",        <<"api", "avatars">>),
       Stmt("route",      "get_avatar",         "get_avatar@334",         <<"api", "avatars", "{}">>),
       Stmt("run",        "uvicorn.run",        "",                       <<>>) >>

Apps == 1..2

\* Optional[str]
None == [some |-> FALSE, val |-> ""]
Some(v) == [some |-> TRUE, val |-> v]

NoArgs ==
    [avatar_name |-> "", skip |-> 0, limit |-> 0,
     search |-> None, count |-> 0, seed |-> 0]

NoStats == [total_avatars |-> 0, base_url |-> "", file_types |-> {}, sample_avatars |-> <<>>]

\* A response: what the client (or the caller of the coroutine) gets back.
\* status 500 stands for an exception that leaves the handler unhandled.
Response(status) ==
    [status |-> status, body |-> <<>>, detail |-> "", location |-> "",
     content |-> "", media_type |-> "application/json",
     avatars_loaded |-> -1, service |-> "", stats |-> NoStats]

\* What is kept of the last finished call: how it came in (via), the handler,
\* its arguments, its response r, the outbound GETs it issued, what the
\* upstream answered, and the phase the call was made in.
NoResp ==
    [via |-> "none", fn |-> "", path |-> <<>>, args |-> NoArgs, r |-> Response(0),
     gets |-> <<>>, upstream |-> [error |-> FALSE, status |-> 0, content |-> ""],
     phase |-> "import"]

Init ==
    /\ FILENAMES = FILENAMES_literal
    /\ ip = 1
    /\ app = 0
    /\ defs = <<>>
    /\ routes = [a \in Apps |-> <<>>]
    /\ on_startup = [a \in Apps |-> <<>>]
    /\ served = 0
    /\ phase = "import"
    /\ avatar_cache = <<>>
    /\ avatar_dict = <<>>
    /\ inflight = <<>>
    /\ resp = NoResp

AtStmt(op) == phase = "import" /\ ip <= Len(Program) /\ Program[ip].op = op

\* app = FastAPI(...)
NewApp ==
    /\ AtStmt("new_app")
    /\ app' = app + 1
    /\ ip' = ip + 1
    /\ UNCHANGED <<FILENAMES, defs, routes, on_startup, served, phase,
                   avatar_cache, avatar_dict, inflight, resp>>

\* avatar_cache = [] ; avatar_dict = {}
InitGlobals ==
    /\ AtStmt("globals")
    /\ avatar_cache' = <<>>
    /\ avatar_dict' = <<>>
    /\ ip' = ip + 1
    /\ UNCHANGED <<FILENAMES, app, defs, routes, on_startup, served, phase,
                   inflight, resp>>

Bind(ns, name, fn) == [n \in DOMAIN ns \cup {name} |-> IF n = name THEN fn ELSE ns[n]]

\* @app.on_event("startup") async def load_avatars(): ...
OnStartupDef ==
    /\ AtStmt("on_startup")
    /\ on_startup' = [on_startup EXCEPT ![app] = Append(@, Program[ip].fn)]
    /\ defs' = Bind(defs, Program[ip].name, Program[ip].fn)
    /\ ip' = ip + 1
    /\ UNCHANGED <<FILENAMES, app, routes, served, phase,
                   avatar_cache, avatar_dict, inflight, resp>>

\* @app.get(path) async def handler(...): ...
RouteDef ==
    /\ AtStmt("route")
    /\ routes' = [routes EXCEPT ![app] =
                     Append(@, [path |-> Program[ip].path, fn |-> Program[ip].fn])]
    /\ defs' = Bind(defs, Program[ip].name, Program[ip].fn)
    /\ ip' = ip + 1
    /\ UNCHANGED <<FILENAMES, app, on_startup, served, phase,
                   avatar_cache, avatar_dict, inflight, resp>>

\* uvicorn.run(app, ...)
Run ==
    /\ AtStmt("run")
    /\ served' = app
    /\ phase' = "startup"
    /\ ip' = ip + 1
    /\ UNCHANGED <<FILENAMES, app, defs, routes, on_startup,
                   avatar_cache, avatar_dict, inflight, resp>>

-----------------------------------------------------------------------------
(* The startup hooks *)

Globals(cache, dict) == [avatar_cache |-> cache, avatar_dict |-> dict]

\* [Avatar.from_filename(f) for f in fs]
FromFilenames(fs) == [i \in 1..Len(fs) |-> from_filename(fs[i])]

\* {a.name.lower(): a for a in cache}: a later record replaces an earlier one
DictOf(cache) ==
    LET low == [i \in 1..Len(cache) |-> Lower(cache[i].name)]
    IN  [k \in {low[i] : i \in 1..Len(cache)} |->
            cache[Max({i \in 1..Len(cache) : low[i] = k})]]

\* a load_avatars that rebinds the list and leaves the index as it was
load_avatars_list_only(g, fs) ==
    Globals(FromFilenames(fs), g.avatar_dict)

\* load_avatars: both globals are rebound with no await in between
load_avatars(g, fs) ==
    LET cache == FromFilenames(fs)
    IN  Globals(cache, DictOf(cache))

\* the hooks of one FastAPI object, run in registration order
RECURSIVE RunHooks(_, _, _)
RunHooks(hooks, g, fs) ==
    IF hooks = <<>> THEN g
    ELSE RunHooks(Tail(hooks),
                  IF Head(hooks) = "load_avatars@46" THEN load_avatars(g, filenames)
                  ELSE load_avatars(g, fs),
                  fs)

\* lifespan startup of the served application
Startup ==
    /\ phase = "startup"
    /\ LET g == RunHooks(on_startup[served], Globals(avatar_cache, avatar_dict), FILENAMES)
       IN  /\ avatar_cache' = g.avatar_cache
           /\ avatar_dict' = g.avatar_dict
    /\ phase' = "serving"
    /\ UNCHANGED <<FILENAMES, ip, app, defs, routes, on_startup, served, inflight, resp>>

-----------------------------------------------------------------------------
(* The request handlers.  Each takes the globals and its arguments and gives *)
(* the globals it leaves, its response, and the URL it awaits (if any).      *)

NoFetch == ""
Out(g, r) == [g |-> g, r |-> r, fetch |-> NoFetch]

Shapes(avatars) == [i \in 1..Len(avatars) |-> Shape(avatars[i])]

\* a list handler that stores the filtered list back into the global
get_avatars_in_place(g, a) ==
    LET search_lower == Lower(a.search.val)
        avatars == IF a.search.some /\ a.search.val # ""
                   THEN Pick(g.avatar_cache,
                             {i \in 1..Len(g.avatar_cache) :
                                 Contains(search_lower, Lower(g.avatar_cache[i].name))},
                             1, Len(g.avatar_cache))
                   ELSE g.avatar_cache
        paginated == PySlice(avatars, a.skip, a.skip + a.limit)
    IN  Out(Globals(avatars, g.avatar_dict), [Response(200) EXCEPT !.body = Shapes(paginated)])

\* get_avatars
get_avatars(g, a) ==
    LET search_lower == Lower(a.search.val)
        avatars == IF a.search.some /\ a.search.val # ""
                   THEN Pick(g.avatar_cache,
                             {i \in 1..Len(g.avatar_cache) :
                                 Contains(search_lower, Lower(g.avatar_cache[i].name))},
                             1, Len(g.avatar_cache))
                   ELSE g.avatar_cache
        paginated == PySlice(avatars, a.skip, a.skip + a.limit)
    IN  Out(g, [Response(200) EXCEPT !.body = Shapes(paginated)])

\* get_all_avatars: the same body as get_avatars
get_all_avatars(g, a) == get_avatars(g, a)

NotFoundDetail(avatar_name) == "Avatar '" \o avatar_name \o "' not found"

\* a lookup that tries the partial match before the index
get_avatar_partial_first(g, a) ==
    LET key == Lower(a.avatar_name)
        matches == {i \in 1..Len(g.avatar_cache) :
                        Contains(key, Lower(g.avatar_cache[i].name))}
    IN  IF matches # {} THEN Out(g, [Response(200) EXCEPT
                                        !.body = <<Shape(g.avatar_cache[Min(matches)])>>])
        ELSE Out(g, [Response(404) EXCEPT !.detail = NotFoundDetail(a.avatar_name)])

\* get_avatar
get_avatar(g, a) ==
    LET key == Lower(a.avatar_name)
        matches == {i \in 1..Len(g.avatar_cache) :
                        Contains(key, Lower(g.avatar_cache[i].name))}
    IN  IF key \in DOMAIN g.avatar_dict
        THEN Out(g, [Response(200) EXCEPT !.body = <<Shape(g.avatar_dict[key])>>])
        ELSE IF matches # {}
             THEN Out(g, [Response(200) EXCEPT
                             !.body = <<Shape(g.avatar_cache[Min(matches)])>>])
             ELSE Out(g, [Response(404) EXCEPT !.detail = NotFoundDetail(a.avatar_name)])

\* get_avatar_by_name: the same body as get_avatar
get_avatar_by_name(g, a) == get_avatar(g, a)

\* The random source: a stream of integers driven by its state.
RandNext(state) == (state * 75 + 74) % 65537

\* random.sample(population, k): k draws from a shrinking pool
RECURSIVE random_sample(_, _, _)
random_sample(pool, k, state) ==
    IF k = 0 THEN <<>>
    ELSE LET n == Len(pool)
             s == RandNext(state)
             j == (s % n) + 1
             rest == [i \in 1..(n - 1) |-> IF i = j THEN pool[n] ELSE pool[i]]
         IN  <<pool[j]>> \o random_sample(rest, k - 1, s)

MaxRandom == 50

\* a sampler without the clamp of lines 184-185
get_random_avatars_unclamped(g, a) ==
    IF a.count < 1
    THEN Out(g, [Response(400) EXCEPT !.detail = "Count must be at least 1"])
    ELSE LET n == Len(g.avatar_cache)
             selected == random_sample(g.avatar_cache,
                                       IF a.count < n THEN a.count ELSE n, a.seed)
         IN  Out(g, [Response(200) EXCEPT !.body = Shapes(selected)])

\* get_random_avatars
get_random_avatars(g, a) ==
    IF a.count < 1
    THEN Out(g, [Response(400) EXCEPT !.detail = "Count must be at least 1"])
    ELSE LET count == IF a.count > MaxRandom THEN MaxRandom ELSE a.count
             n == Len(g.avatar_cache)
             selected == random_sample(g.avatar_cache,
                                       IF count < n THEN count ELSE n, a.seed)
         IN  Out(g, [Response(200) EXCEPT !.body = Shapes(selected)])

\* get_avatar_stats
get_avatar_stats(g, a) ==
    LET cache == g.avatar_cache
    IN  Out(g, [Response(200) EXCEPT !.stats =
            [total_avatars |-> Len(cache),
             base_url |-> BASE_AVATAR_URL,
             file_types |-> {SplitLast(cache[i].imageurl, ".") : i \in 1..Len(cache)},
             sample_avatars |-> [i \in 1..(IF Len(cache) < 5 THEN Len(cache) ELSE 5) |->
                                    [name |-> cache[i].name, url |-> cache[i].imageurl]]]])

\* an image handler that resolves the name the way get_avatar does
get_avatar_image_partial(g, a) ==
    LET found == get_avatar(g, a)
    IN  IF found.r.status = 404 THEN Out(g, Response(404))
        ELSE [Out(g, Response(0)) EXCEPT !.fetch = found.r.body[1].imageurl]

\* get_avatar_image up to `await client.get(avatar.imageurl)`
get_avatar_image(g, a) ==
    LET key == Lower(a.avatar_name)
    IN  IF key \notin DOMAIN g.avatar_dict
        THEN Out(g, [Response(404) EXCEPT !.detail = "Not Found"])
        ELSE [Out(g, Response(0)) EXCEPT !.fetch = g.avatar_dict[key].imageurl]

\* What client.get can come back with: an exception (error), or a response
\* with a status code and a body; httpx does not raise on a status code.
Upstream(error, status, content) == [error |-> error, status |-> status, content |-> content]

\* get_avatar_image from the await on
get_avatar_image_resume(response) ==
    IF response.error THEN Response(500)
    ELSE [Response(200) EXCEPT !.content = response.content, !.media_type = "image/png"]

\* health_check (line 295; the one of line 226 has no "service" key)
health_check(g, service) ==
    Out(g, [Response(200) EXCEPT !.avatars_loaded = Len(g.avatar_cache),
                                 !.service = service])

\* root
root(g) == Out(g, [Response(307) EXCEPT !.location = "/docs"])

Handle(fn, g, a) ==
    CASE fn = "get_avatars@310"        -> get_avatars(g, a)
      [] fn = "get_all_avatars@116"    -> get_all_avatars(g, a)
      [] fn = "get_avatar@334"         -> get_avatar(g, a)
      [] fn = "get_avatar_by_name@148" -> get_avatar_by_name(g, a)
      [] fn = "get_random_avatars@173" -> get_random_avatars(g, a)
      [] fn = "get_avatar_stats@199"   -> get_avatar_stats(g, a)
      [] fn = "get_avatar_image@212"   -> get_avatar_image(g, a)
      [] fn = "health_check@295"       -> health_check(g, "avatar-api")
      [] fn = "health_check@226"       -> health_check(g, "")
      [] fn \in {"root@305", "root@111"} -> root(g)

-----------------------------------------------------------------------------
(* Routing and parameter binding, as FastAPI does them for this module *)

Digits == "0123456789"
DigitVal(c) == (CHOOSE i \in 1..10 : SubSeq(Digits, i, i) = c) - 1
IsNat(s) == s # "" /\ \A i \in 1..Len(s) : Contains(SubSeq(s, i, i), Digits)
IsInt(s) == IF s # "" /\ Head(s) = "-" THEN IsNat(Tail(s)) ELSE IsNat(s)
RECURSIVE ParseNat(_)
ParseNat(s) ==
    IF s = "" THEN 0
    ELSE ParseNat(SubSeq(s, 1, Len(s) - 1)) * 10 + DigitVal(SubSeq(s, Len(s), Len(s)))
ParseInt(s) == IF Head(s) = "-" THEN 0 - ParseNat(Tail(s)) ELSE ParseNat(s)

\* a path parameter matches one non-empty segment
SegMatches(pat, seg) == IF pat = "{}" THEN seg # "" ELSE pat = seg

PathMatches(pattern, path) ==
    /\ Len(pattern) = Len(path)
    /\ \A i \in 1..Len(path) : SegMatches(pattern[i], path[i])

\* index of the first route of the table that matches, 0 when none does
Match(table, path) ==
    LET hits == {i \in 1..Len(table) : PathMatches(table[i].path, path)}
    IN  IF hits = {} THEN 0 ELSE Min(hits)

\* the segment bound to the path parameter
PathParam(pattern, path) ==
    LET at == {i \in 1..Len(pattern) : pattern[i] = "{}"}
    IN  IF at = {} THEN "" ELSE path[Min(at)]

NoInt == [some |-> FALSE, val |-> 0]
SomeInt(v) == [some |-> TRUE, val |-> v]
NoQuery == [skip |-> NoInt, limit |-> NoInt, search |-> None]

\* Query(default, ge=.., le=..) of the two list handlers
LimitDefault(fn) == IF fn = "get_all_avatars@116" THEN 100 ELSE 20
LimitMax(fn) == IF fn = "get_all_avatars@116" THEN 200 ELSE 100

\* [ok, args]: the handler's arguments, or ok = FALSE for a 422
BindArgs(fn, pattern, path, query, seed) ==
    LET p == PathParam(pattern, path)
    IN  IF fn \in {"get_all_avatars@116", "get_avatars@310"}
        THEN LET skip == IF query.skip.some THEN query.skip.val ELSE 0
                 limit == IF query.limit.some THEN query.limit.val ELSE LimitDefault(fn)
             IN  [ok |-> skip >= 0 /\ limit >= 1 /\ limit <= LimitMax(fn),
                  args |-> [NoArgs EXCEPT !.skip = skip, !.limit = limit,
                                          !.search = query.search]]
        ELSE IF fn = "get_random_avatars@173"
        THEN [ok |-> IsInt(p),
              args |-> [NoArgs EXCEPT !.count = IF IsInt(p) THEN ParseInt(p) ELSE 0,
                                      !.seed = seed]]
        ELSE [ok |-> TRUE, args |-> [NoArgs EXCEPT !.avatar_name = p]]

-----------------------------------------------------------------------------
(* Inputs *)

NameInputs ==
    {"Adem Lane", "LANE", "Lane", "ane", "OLIVIA RHYE", "doesnotexist", "Zed", "random"}

SearchInputs == {None, Some(""), Some("ana"), Some("LANE")}

SeedInputs == {0, 1}

CountInputs == {-1, 0, 1, 3, 5, 6, 50, 51, 1000}

UpstreamInputs ==
    { Upstream(TRUE, 0, ""),
      Upstream(FALSE, 200, "PNG"),
      Upstream(FALSE, 301, ""),
      Upstream(FALSE, 404, "<html>404</html>"),
      Upstream(FALSE, 503, "unavailable") }

Req(path, query, seed) == [path |-> path, query |-> query, seed |-> seed]

HttpInputs ==
    { Req(<<"api", "avatars">>, [skip |-> sk, limit |-> li, search |-> se], 0) :
        sk \in {NoInt, SomeInt(1)},
        li \in {NoInt, SomeInt(1), SomeInt(100)},
        se \in SearchInputs }
    \cup { Req(<<"api", "avatars">>, [NoQuery EXCEPT !.skip = SomeInt(-1)], 0),
           Req(<<"api", "avatars">>, [NoQuery EXCEPT !.limit = SomeInt(0)], 0),
           Req(<<"api", "avatars">>, [NoQuery EXCEPT !.limit = SomeInt(101)], 0) }
    \cup { Req(<<"api", "avatars", n>>, NoQuery, 0) : n \in NameInputs }
    \cup { Req(<<"api", "avatars", n, "image">>, NoQuery, 0) : n \in {"Adem Lane", "Lane"} }
    \cup { Req(<<"api", "avatars", "random", c>>, NoQuery, 0) : c \in {"0", "3", "x"} }
    \cup { Req(p, NoQuery, 0) :
             p \in {<<>>, <<"health">>, <<"docs">>, <<"api", "avatars", "stats", "info">>} }

CallInputs(fn) ==
    IF fn = "get_avatars@310"
    THEN { [NoArgs EXCEPT !.skip = sk, !.limit = li, !.search = se] :
             sk \in {0, 1, 5}, li \in {1, 3, 100}, se \in SearchInputs }
    ELSE IF fn = "get_all_avatars@116"
    THEN { [NoArgs EXCEPT !.skip = sk, !.limit = li, !.search = se] :
             sk \in {0, 2}, li \in {2, 200}, se \in {None, Some("ana")} }
    ELSE IF fn \in {"get_avatar@334", "get_avatar_by_name@148", "get_avatar_image@212"}
    THEN { [NoArgs EXCEPT !.avatar_name = n] : n \in NameInputs }
    ELSE IF fn = "get_random_avatars@173"
    THEN { [NoArgs EXCEPT !.count = c, !.seed = sd] : c \in CountInputs, sd \in SeedInputs }
    ELSE { NoArgs }

\* the inputs used with the 144-name list
HttpInputsFull ==
    { Req(<<"api", "avatars">>, [NoQuery EXCEPT !.search = se], 0) :
        se \in {None, Some("ana")} }
    \cup { Req(<<"api", "avatars">>, [NoQuery EXCEPT !.limit = SomeInt(101)], 0),
           Req(<<"api", "avatars">>, [NoQuery EXCEPT !.limit = SomeInt(1)], 0),
           Req(<<"api", "avatars", "Lane">>, NoQuery, 0),
           Req(<<"api", "avatars", "random", "x">>, NoQuery, 0),
           Req(<<"api", "avatars", "random", "1000">>, NoQuery, 0),
           Req(<<"health">>, NoQuery, 0) }

CallInputsFull(fn) ==
    IF fn = "get_all_avatars@116"
    THEN { [NoArgs EXCEPT !.skip = sk, !.limit = 200, !.search = se] :
             sk \in {0, 143, 144}, se \in {None, Some("ana")} }
    ELSE IF fn \in {"get_avatar_by_name@148", "get_avatar_image@212"}
    THEN { [NoArgs EXCEPT !.avatar_name = n] : n \in {"OLIVIA RHYE", "Lane", "doesnotexist"} }
    ELSE IF fn = "get_random_avatars@173"
    THEN { [NoArgs EXCEPT !.count = c, !.seed = sd] :
             c \in {0, 3, 50, 51, 145, 1000}, sd \in SeedInputs }
    ELSE IF fn = "get_avatar_stats@199" THEN { NoArgs }
    ELSE {}

-----------------------------------------------------------------------------
(* Requests *)

Finished(via, fn, path, a, r, gets, upstream) ==
    [via |-> via, fn |-> fn, path |-> path, args |-> a, r |-> r,
     gets |-> gets, upstream |-> upstream, phase |-> phase]

NoUpstream == Upstream(FALSE, 0, "")

\* run handler fn on arguments a, up to its response or its first await
Invoke(via, fn, path, a) ==
    LET out == Handle(fn, Globals(avatar_cache, avatar_dict), a)
    IN  /\ avatar_cache' = out.g.avatar_cache
        /\ avatar_dict' = out.g.avatar_dict
        /\ IF out.fetch # NoFetch
           THEN /\ Len(inflight) < MaxInflight
                /\ inflight' = Append(inflight,
                                      [via |-> via, fn |-> fn, path |-> path, args |-> a,
                                       gets |-> <<out.fetch>>])
                /\ resp' = resp
           ELSE /\ inflight' = inflight
                /\ resp' = Finished(via, fn, path, a, out.r, <<>>, NoUpstream)

\* an HTTP GET to the served application
Request(req) ==
    /\ phase = "serving"
    /\ LET table == routes[served]
           m == Match(table, req.path)
       IN  IF m = 0
           THEN /\ resp' = Finished("http", "", req.path, NoArgs,
                                    [Response(404) EXCEPT !.detail = "Not Found"],
                                    <<>>, NoUpstream)
                /\ UNCHANGED <<avatar_cache, avatar_dict, inflight>>
           ELSE LET b == BindArgs(table[m].fn, table[m].path, req.path, req.query, req.seed)
                IN  IF ~b.ok
                    THEN /\ resp' = Finished("http", table[m].fn, req.path, NoArgs,
                                             Response(422), <<>>, NoUpstream)
                         /\ UNCHANGED <<avatar_cache, avatar_dict, inflight>>
                    ELSE Invoke("http", table[m].fn, req.path, b.args)
    /\ UNCHANGED <<FILENAMES, ip, app, defs, routes, on_startup, served, phase>>

\* the functions the module namespace holds once main.py has been executed
Callable == {defs[n] : n \in DOMAIN defs \ {"load_avatars"}}

\* a direct call of a handler coroutine of the imported module
Call(fn, a) ==
    /\ phase \in {"startup", "serving"}
    /\ fn \in Callable
    /\ Invoke("call", fn, <<>>, a)
    /\ UNCHANGED <<FILENAMES, ip, app, defs, routes, on_startup, served, phase>>

\* client.get comes back to the suspended coroutine i
FetchComplete(i, u) ==
    /\ i \in 1..Len(inflight)
    /\ LET c == inflight[i]
       IN  resp' = Finished(c.via, c.fn, c.path, c.args,
                            get_avatar_image_resume(u), c.gets, u)
    /\ inflight' = [k \in 1..(Len(inflight) - 1) |->
                       IF k < i THEN inflight[k] ELSE inflight[k + 1]]
    /\ UNCHANGED <<FILENAMES, ip, app, defs, routes, on_startup, served, phase,
                   avatar_cache, avatar_dict>>

AllFns == {Program[k].fn : k \in 1..Len(Program)} \ {""}

Next ==
    \/ NewApp \/ InitGlobals \/ OnStartupDef \/ RouteDef \/ Run \/ Startup
    \/ \E req \in HttpInputs : Request(req)
    \/ \E fn \in AllFns : \E a \in CallInputs(fn) : Call(fn, a)
    \/ \E i \in 1..MaxInflight : \E u \in UpstreamInputs : FetchComplete(i, u)

Spec == Init /\ [][Next]_vars

\* filename lists of other catalogs: the shipped one, the empty one, a
\* two-name one, and one whose names collide after lowercasing
Catalogs ==
    { FILENAMES_literal,
      <<>>,
      <<"Abraham Baker.png", "Adem Lane.png">>,
      <<"Adem Lane.png", "Lane.png", "LANE.png", "Zed.jpg">> }

InitCat ==
    /\ FILENAMES \in Catalogs
    /\ ip = 1
    /\ app = 0
    /\ defs = <<>>
    /\ routes = [a \in Apps |-> <<>>]
    /\ on_startup = [a \in Apps |-> <<>>]
    /\ served = 0
    /\ phase = "import"
    /\ avatar_cache = <<>>
    /\ avatar_dict = <<>>
    /\ inflight = <<>>
    /\ resp = NoResp

SpecCat == InitCat /\ [][Next]_vars

\* the two filename lists main.py contains
InitLists ==
    /\ FILENAMES \in {FILENAMES_literal, filenames}
    /\ ip = 1
    /\ app = 0
    /\ defs = <<>>
    /\ routes = [a \in Apps |-> <<>>]
    /\ on_startup = [a \in Apps |-> <<>>]
    /\ served = 0
    /\ phase = "import"
    /\ avatar_cache = <<>>
    /\ avatar_dict = <<>>
    /\ inflight = <<>>
    /\ resp = NoResp

NextFull ==
    \/ NewApp \/ InitGlobals \/ OnStartupDef \/ RouteDef \/ Run \/ Startup
    \/ \E req \in HttpInputsFull : Request(req)
    \/ \E fn \in AllFns : \E a \in CallInputsFull(fn) : Call(fn, a)
    \/ \E i \in 1..MaxInflight : \E u \in UpstreamInputs : FetchComplete(i, u)

SpecLists == InitLists /\ [][NextFull]_vars

-----------------------------------------------------------------------------
(* Properties *)

ListFns == {"get_avatars@310", "get_all_avatars@116"}
LookupFns == {"get_avatar@334", "get_avatar_by_name@148"}

\* the last finished call ran handler fn on the catalog as it is now
Answered(fns) == resp.via # "none" /\ resp.fn \in fns /\ resp.phase = phase /\ resp.r.status # 422

\* positions of the catalog whose name contains q case-insensitively
Matching(q) ==
    {i \in 1..Len(avatar_cache) : Contains(Lower(q), Lower(avatar_cache[i].name))}

\* positions of the catalog whose name equals q case-insensitively
Equal(q) == {i \in 1..Len(avatar_cache) : Lower(avatar_cache[i].name) = Lower(q)}

BodyNames == {resp.r.body[k].name : k \in 1..Len(resp.r.body)}

\* C1: List(skip, limit, search) answers 200 with at most limit records, which
\* are, in order, the records at positions skip .. skip+limit-1 (counted from
\* 0) of the catalog filtered to the names containing search
\* case-insensitively (the whole catalog without a search), clamped to what
\* is there; a skip at or past the end gives the empty list.
C1_ListIsSlice ==
    Answered(ListFns) =>
        LET a == resp.args
            M == Matching(IF a.search.some THEN a.search.val ELSE "")
            avail == Cardinality(M) - a.skip
            n == IF avail < 0 THEN 0 ELSE IF avail < a.limit THEN avail ELSE a.limit
            body == resp.r.body
        IN  /\ resp.r.status = 200
            /\ Len(body) <= a.limit
            /\ Len(body) = n
            /\ \A k \in 1..Len(body) :
                   \E i \in M : /\ Cardinality({j \in M : j < i}) = a.skip + k - 1
                                /\ body[k] = Shape(avatar_cache[i])

\* C1 witness: a search that drops records, paged from inside the filtered
\* list
C1_Witness ==
    /\ Answered(ListFns)
    /\ resp.args.search.some
    /\ Cardinality(Matching(resp.args.search.val)) \in 2..(Len(avatar_cache) - 1)
    /\ resp.args.skip = 1
    /\ Len(resp.r.body) = 1

\* C2: GetByName(q) answers a record whose name equals q case-insensitively
\* when the catalog has one; otherwise the first record in catalog order whose
\* name contains q case-insensitively; and 404 with the detail naming q
\* exactly when no name contains q.
C2_ExactThenFirstPartial ==
    Answered(LookupFns) =>
        LET q == resp.args.avatar_name
            r == resp.r
        IN  /\ r.status \in {200, 404}
            /\ r.status = 200 => Len(r.body) = 1
            /\ Equal(q) # {} =>
                   /\ r.status = 200
                   /\ \E i \in Equal(q) : r.body[1] = Shape(avatar_cache[i])
            /\ (Equal(q) = {} /\ Matching(q) # {}) =>
                   /\ r.status = 200
                   /\ r.body[1] = Shape(avatar_cache[Min(Matching(q))])
            /\ (r.status = 404) <=> (Matching(q) = {})
            /\ r.status = 404 => r.detail = "Avatar '" \o q \o "' not found"

\* C2 witness: an exact match is answered although an earlier record contains
\* the query
C2_Witness ==
    /\ Answered(LookupFns)
    /\ Equal(resp.args.avatar_name) # {}
    /\ Min(Matching(resp.args.avatar_name)) \notin Equal(resp.args.avatar_name)
    /\ resp.r.status = 200

\* the name before "@" of a function object
NameOf(fn) == SubSeq(fn, 1, LastIndex(fn, "@", Len(fn)) - 1)

\* the name of the handler the served application routes path to ("" if none)
Routed(path) ==
    LET m == Match(routes[served], path)
    IN  IF m = 0 THEN "" ELSE NameOf(routes[served][m].fn)

\* C3: once the application is serving, every GET endpoint of section 6 is
\* routed to its handler by the application object that is served.
C3_AllEndpointsRouted ==
    phase = "serving" =>
        /\ Routed(<<>>) = "root"
        /\ Routed(<<"health">>) = "health_check"
        /\ Routed(<<"api", "avatars">>) \in {"get_avatars", "get_all_avatars"}
        /\ Routed(<<"api", "avatars", "Adem Lane">>) \in {"get_avatar", "get_avatar_by_name"}
        /\ Routed(<<"api", "avatars", "random", "3">>) = "get_random_avatars"
        /\ Routed(<<"api", "avatars", "stats", "info">>) = "get_avatar_stats"
        /\ Routed(<<"api", "avatars", "Adem Lane", "image">>) = "get_avatar_image"

RandomFns == {"get_random_avatars@173"}

Distinct(seq) == \A k, l \in 1..Len(seq) : k # l => seq[k] # seq[l]

FromCatalog(seq) ==
    \A k \in 1..Len(seq) : \E i \in 1..Len(avatar_cache) : seq[k] = Shape(avatar_cache[i])

\* C4 as claimed: RandomSample(count) with count above the catalog size
\* answers exactly catalogSize pairwise distinct records of the catalog.
C4_SampleIsWholeCatalog ==
    (Answered(RandomFns) /\ resp.args.count > Len(avatar_cache)) =>
        /\ resp.r.status = 200
        /\ Len(resp.r.body) = Len(avatar_cache)
        /\ Distinct(resp.r.body)
        /\ FromCatalog(resp.r.body)

\* C4 as amended: RandomSample(count) with count above the catalog size
\* answers exactly min(catalogSize, 50) pairwise distinct records of the
\* catalog, the empty list when the catalog is empty.
C4_SampleIsClampedCatalog ==
    (Answered(RandomFns) /\ resp.args.count > Len(avatar_cache)) =>
        /\ resp.r.status = 200
        /\ Len(resp.r.body) =
               (IF Len(avatar_cache) < MaxRandom THEN Len(avatar_cache) ELSE MaxRandom)
        /\ Distinct(resp.r.body)
        /\ FromCatalog(resp.r.body)

\* C4 witness: a count above the size of a catalog of more than 50 records
C4_Witness ==
    /\ Answered(RandomFns)
    /\ resp.args.count > Len(avatar_cache)
    /\ Len(avatar_cache) > MaxRandom
    /\ Len(resp.r.body) = MaxRandom

ImageFns == {"get_avatar_image@212"}

\* C5: an image request whose outbound fetch failed (an exception, or a
\* status outside 2xx) ends in a 5xx response.
C5_FetchFailureIsServerError ==
    (Answered(ImageFns) /\ resp.gets # <<>>
        /\ (resp.upstream.error \/ resp.upstream.status \notin 200..299)) =>
        resp.r.status \in 500..599

\* C6: the image proxy issues no outbound GET and answers 404 for a name that
\* is not a key of the index, and issues exactly one GET, to the imageurl of
\* the record under that key, before it answers for a name that is.
C6_ImageExactOnly ==
    /\ \A i \in 1..Len(inflight) :
           LET key == Lower(inflight[i].args.avatar_name)
           IN  /\ key \in DOMAIN avatar_dict
               /\ inflight[i].gets = <<avatar_dict[key].imageurl>>
    /\ Answered(ImageFns) =>
           LET key == Lower(resp.args.avatar_name)
           IN  IF key \in DOMAIN avatar_dict
               THEN resp.gets = <<avatar_dict[key].imageurl>>
               ELSE resp.r.status = 404 /\ resp.gets = <<>>

\* C6 witness: a name that get_avatar would resolve by partial match is
\* answered 404 by the image proxy without a fetch
C6_Witness ==
    /\ Answered(ImageFns)
    /\ phase = "serving"
    /\ Lower(resp.args.avatar_name) \notin DOMAIN avatar_dict
    /\ Matching(resp.args.avatar_name) # {}
    /\ resp.r.status = 404
    /\ resp.gets = <<>>

\* List(search="ana") with skip 0 and a limit covering all matches, once the
\* startup catalog is loaded
AnaListing ==
    /\ Answered(ListFns)
    /\ phase = "serving"
    /\ resp.args.search = Some("ana")
    /\ resp.args.skip = 0
    /\ resp.args.limit >= Cardinality(Matching("ana"))

\* C7 as claimed: List(search="ana") on the startup catalog includes
\* "Amanda Lowery" and excludes "Byron Robertson".
C7_AnaIncludesAmanda ==
    AnaListing => ("Amanda Lowery" \in BodyNames /\ "Byron Robertson" \notin BodyNames)

\* C7 as amended: List(search="ana") on the startup catalog includes
\* "Adriana O'Sullivan" and excludes both "Amanda Lowery" and "Byron
\* Robertson", neither of which contains "ana".
C7_AnaIncludesAdriana ==
    AnaListing =>
        /\ "Adriana O'Sullivan" \in BodyNames
        /\ "Amanda Lowery" \notin BodyNames
        /\ "Byron Robertson" \notin BodyNames

\* C7 witness: the listing is made on a catalog that holds both names
C7_Witness ==
    /\ AnaListing
    /\ \E i, j \in 1..Len(avatar_cache) :
           avatar_cache[i].name = "Amanda Lowery" /\ avatar_cache[j].name = "Byron Robertson"
    /\ Len(resp.r.body) = 3

\* GET /api/avatars?limit=1 on the served application, with the catalog
\* built from ["Abraham Baker.png", "Adem Lane.png"]
LimitOneRequest ==
    /\ FILENAMES = <<"Abraham Baker.png", "Adem Lane.png">>
    /\ phase = "serving"
    /\ resp.phase = "serving"
    /\ resp.via = "http"
    /\ resp.path = <<"api", "avatars">>
    /\ resp.args = [NoArgs EXCEPT !.limit = 1]

\* C8 as claimed: that request answers exactly one record, named "Abraham
\* Baker", with filename "Abraham Baker.png".
C8_FilenameAsWritten ==
    LimitOneRequest =>
        /\ Len(resp.r.body) = 1
        /\ resp.r.body[1].name = "Abraham Baker"
        /\ resp.r.body[1].filename = "Abraham Baker.png"

\* C8 as amended: that request answers exactly one record, named "Abraham
\* Baker", whose filename, the last path segment of its imageurl, is
\* "Abraham%20Baker.png".
C8_FilenameEncoded ==
    LimitOneRequest =>
        /\ resp.r.status = 200
        /\ Len(resp.r.body) = 1
        /\ resp.r.body[1].name = "Abraham Baker"
        /\ resp.r.body[1].filename = "Abraham%20Baker.png"
        /\ resp.r.body[1].filename = SplitLast(resp.r.body[1].imageurl, "/")

\* C8 witness: the request has been answered
C8_Witness == LimitOneRequest /\ resp.r.status = 200

\* C9: once startup has completed no step changes the ordered record list or
\* the index.
C9_CatalogFrozen ==
    [][phase = "serving" => (avatar_cache' = avatar_cache /\ avatar_dict' = avatar_dict)]_vars

\* C9 witness: a request has been answered while another one is suspended at
\* its fetch, on a loaded catalog
C9_Witness ==
    /\ phase = "serving"
    /\ avatar_cache # <<>>
    /\ inflight # <<>>
    /\ Answered(ListFns)
    /\ resp.args.search.some
    /\ Len(resp.r.body) < Len(avatar_cache)

\* C10: in every state the keys of the index are the lowercased names of the
\* list, and each key maps to the last record of the list with that
\* lowercased name.
C10_IndexConsistent ==
    /\ DOMAIN avatar_dict = {Lower(avatar_cache[i].name) : i \in 1..Len(avatar_cache)}
    /\ \A key \in DOMAIN avatar_dict :
           \E i \in 1..Len(avatar_cache) :
               /\ Lower(avatar_cache[i].name) = key
               /\ avatar_dict[key] = avatar_cache[i]
               /\ \A j \in (i + 1)..Len(avatar_cache) : Lower(avatar_cache[j].name) # key

\* C10 witness: a handler has answered on a catalog in which two names
\* collide after lowercasing
C10_Witness ==
    /\ phase = "serving"
    /\ Cardinality(DOMAIN avatar_dict) < Len(avatar_cache)
    /\ Answered(LookupFns)

====
